---- MODULE Spec2Model ----
(***************************************************************************)
(* GeoDashboard (src/app.py): one script run per user interaction.  A run   *)
(* reads the sidebar widgets, purges the scratch directory "frame", and     *)
(* then, for every selected metric in turn, fetches a table, shows a chart  *)
(* and a trend view, writes one PNG frame per year, encodes a GIF and an    *)
(* MP4 and offers three downloads; every metric runs inside its own         *)
(* try/except.  The scratch directory is shared by every run of the         *)
(* process.                                                                 *)
(***************************************************************************)
EXTENDS Integers, Sequences, FiniteSets, TLC

VARIABLES
    nSessions,           \* browser sessions of the process (one run in flight each)
    nruns,               \* runs started so far; a run's identity is its number
    dir,                 \* the scratch directory: file name -> file body
    pc,                  \* per session: position of its run in the script
    runId,               \* per session: identity of its current run
    selected_countries,  \* per session: st.multiselect("Select Countries")
    selected_metrics,    \* per session: st.multiselect("Select Metric/s")
    fps,                 \* per session: st.slider("Animation FPS")
    idx,                 \* per session: position of the for loop in selected_metrics
    df,                  \* per session: the table of the current metric
    years,               \* per session: sorted(df['Year'].unique())
    frame_paths,         \* per session: frame files written so far
    clip,                \* per session: the ImageSequenceClip
    shown,               \* per session: elements displayed on the page
    offered              \* per session: download buttons displayed on the page

vars == <<nSessions, nruns, dir, pc, runId, selected_countries, selected_metrics,
          fps, idx, df, years, frame_paths, clip, shown, offered>>

(***************************************************************************)
(* Bounds of the model.                                                     *)
(***************************************************************************)
MaxRows == 2        \* rows of one provider response
MaxRuns == 2        \* runs started in one behaviour

Sessions == {1, 2}

(***************************************************************************)
(* Program constants.                                                       *)
(***************************************************************************)
MinFps == 1
MaxFps == 5
start_date == <<2000, 1, 1>>
end_date   == <<2022, 1, 1>>

metrics ==
    [n \in {"CO2 Emissions (metric tons per capita)", "GDP per Capita (current US$)",
            "Population", "Life Expectancy"} |->
        CASE n = "CO2 Emissions (metric tons per capita)" -> "EN.ATM.CO2E.PC"
          [] n = "GDP per Capita (current US$)"           -> "NY.GDP.PCAP.CD"
          [] n = "Population"                             -> "SP.POP.TOTL"
          [] n = "Life Expectancy"                        -> "SP.DYN.LE00.IN"]

iso_map == [n \in {"Pakistan", "India"} |-> IF n = "Pakistan" THEN "PAK" ELSE "IND"]

all_countries == DOMAIN iso_map

NaN == "NaN"

(***************************************************************************)
(* Inputs: what the widgets and the data provider may hand to a run.        *)
(***************************************************************************)
SeqsUpTo(S, n) == UNION {[1..k -> S] : k \in 0..n}

RawDates == {<<1999, 1, 1>>, <<2000, 1, 1>>, <<2022, 1, 1>>, <<2023, 1, 1>>}

RawRows == [country : all_countries, date : RawDates, value : {NaN, "v"}]

MetricChoices ==
    {<<>>, <<"GDP per Capita (current US$)">>, <<"Population">>,
     <<"GDP per Capita (current US$)", "Population">>,
     <<"Population", "GDP per Capita (current US$)">>}

CountryChoices == {{}, {"Pakistan", "India"}}

\* With two sessions the inputs are narrowed to one metric, one country and
\* one frame rate: both runs then use the same file names.
Inputs ==
    IF nSessions = 1
    THEN [metricSel  |-> MetricChoices,
          countrySel |-> CountryChoices,
          fpsSel     |-> MinFps..MaxFps,
          worlds     |-> SeqsUpTo(RawRows, MaxRows)]
    ELSE [metricSel  |-> {<<"Population">>},
          countrySel |-> {{"Pakistan"}},
          fpsSel     |-> {2},
          worlds     |-> SeqsUpTo({r \in RawRows : r.country = "Pakistan"
                                                   /\ r.date = <<2000, 1, 1>>}, 1)]

(***************************************************************************)
(* Data Fetcher (lines 118-125).                                            *)
(***************************************************************************)
DateLE(a, b) ==
    \/ a[1] < b[1]
    \/ a[1] = b[1] /\ a[2] < b[2]
    \/ a[1] = b[1] /\ a[2] = b[2] /\ a[3] <= b[3]

\* The provider's answer to get_dataframe(country=..., data_date=...): the rows
\* of its series for the requested countries within the inclusive date range.
get_dataframe(world, country, data_date) ==
    SelectSeq(world, LAMBDA r : /\ iso_map[r.country] \in country
                                /\ DateLE(data_date[1], r.date)
                                /\ DateLE(r.date, data_date[2]))

\* variant: the dropna() call left out
dropna_keep(rows) == rows

dropna(rows) == SelectSeq(rows, LAMBDA r : r.value # NaN)

\* df['Year'] = df['date'].dt.year ; rename country -> Country
normalise(rows) ==
    [i \in 1..Len(rows) |->
        [Country |-> rows[i].country, date |-> rows[i].date,
         Year |-> rows[i].date[1], value |-> rows[i].value]]

\* df.pivot(index="Year", columns="Country") raises on a repeated (Year, Country)
pivot_ok(t) ==
    \A i, j \in 1..Len(t) :
        (i # j) => ~(t[i].Year = t[j].Year /\ t[i].Country = t[j].Country)

\* pandas unique(): the distinct values in order of first appearance
RECURSIVE unique(_)
unique(s) ==
    IF s = <<>> THEN <<>>
    ELSE LET front == unique(SubSeq(s, 1, Len(s) - 1))
             last  == s[Len(s)]
         IN IF \E i \in 1..Len(front) : front[i] = last
            THEN front ELSE Append(front, last)

RECURSIVE insert(_, _)
insert(s, x) ==
    IF s = <<>> THEN <<x>>
    ELSE IF x <= Head(s) THEN <<x>> \o s
    ELSE <<Head(s)>> \o insert(Tail(s), x)

RECURSIVE sorted(_)
\* variant: the years taken in order of first appearance
sorted_unsorted(s) == s

sorted(s) == IF s = <<>> THEN <<>> ELSE insert(sorted(Tail(s)), Head(s))

year_column(t) == [i \in 1..Len(t) |-> t[i].Year]

\* line 160
years_of(t) == sorted(unique(year_column(t)))

(***************************************************************************)
(* Scratch directory (lines 101-106, 178-188).                              *)
(***************************************************************************)
lower(ext) ==
    CASE ext = ".PNG" -> ".png"
      [] ext = ".GIF" -> ".gif"
      [] ext = ".MP4" -> ".mp4"
      [] OTHER        -> ext

MediaExt == {".png", ".gif", ".mp4"}

\* variant: only the frames are purged
is_media_png_only(name) == lower(name.ext) = ".png"

is_media(name) == lower(name.ext) \in MediaExt

\* for fname in os.listdir(FRAME_DIR): if fname.lower().endswith(...): os.remove
cleanup(d) == [n \in {m \in DOMAIN d : ~is_media(m)} |-> d[n]]

\* variant: the file lands outside the scratch directory
write_file_elsewhere(d, name, body) == d

write_file(d, name, body) ==
    [n \in DOMAIN d \cup {name} |-> IF n = name THEN body ELSE d[n]]

\* variant: the year left out of the frame name
frame_path_no_year(code, yr) == [base |-> code, ext |-> ".png"]

frame_path(code, yr) == [base |-> code \o "_" \o ToString(yr), ext |-> ".png"]

gif_p(code) == [base |-> code, ext |-> ".gif"]

mp4_p(code) == [base |-> code, ext |-> ".mp4"]

\* files left in the directory by an earlier process
StaleDir ==
    LET names == {[base |-> "SP.POP.TOTL_2000", ext |-> ".png"],
                  [base |-> "SP.POP.TOTL", ext |-> ".mp4"],
                  [base |-> "old", ext |-> ".GIF"],
                  [base |-> "notes", ext |-> ".txt"]}
    IN [n \in names |-> [writer |-> 0, kind |-> "stale"]]

(***************************************************************************)
(* Page elements and files.                                                 *)
(***************************************************************************)
El(m, el, text) == [metric |-> m, el |-> el, text |-> text]

Button(m, label, file_name, mime, data) ==
    [metric |-> m, label |-> label, file_name |-> file_name, mime |-> mime,
     data |-> data]

\* pio.write_image(f, out, format="png"): the map of one year of one metric
render_frame(run, code, yr, t) ==
    [writer |-> run, kind |-> "png", code |-> code, year |-> yr]

\* ImageSequenceClip(frame_paths, fps=fps) loads every frame file, in list order
load_clip(d, paths, f) == [frames |-> [i \in 1..Len(paths) |-> d[paths[i]]], fps |-> f]

\* variant: the GIF written at the slider's default rate
write_gif_default_fps(run, c, f) ==
    [writer |-> run, kind |-> "gif", frames |-> c.frames, fps |-> 2]

\* clip.write_gif(gif_p, fps=fps)
write_gif(run, c, f) == [writer |-> run, kind |-> "gif", frames |-> c.frames, fps |-> f]

\* clip.write_videofile(mp4_p, fps=fps, codec="libx264", audio=False)
write_videofile(run, c, f) ==
    [writer |-> run, kind |-> "mp4", frames |-> c.frames, fps |-> f, audio |-> FALSE]

\* variant: the handler clears the section of the metric
handler_replace(sh, m, e) == {x \in sh : x.metric # m} \cup {El(m, "error", e)}

\* except Exception as e: st.error(f"Error with {metric_name}: {e}")
handler(sh, m, e) == sh \cup {El(m, "error", e)}

\* variant: the try wraps the whole loop
except_pc_abort == "done"

\* the handler sits inside the for loop: the loop goes on with the next metric
except_pc == "advance"

\* variant: the continue left out
empty_pc_fallthrough == "chart"

\* if df.empty: st.warning(...); continue
empty_pc == "advance"

\* variant: the PNG and GIF buttons moved up, ahead of the MP4 encoding
next_step_buttons_early(p) ==
    CASE p = "empty_check" -> "chart"
      [] p = "chart"       -> "trend"
      [] p = "trend"       -> "frames"
      [] p = "frames"      -> "clip"
      [] p = "clip"        -> "gif"
      [] p = "gif"         -> "dl_png"
      [] p = "dl_png"      -> "dl_gif"
      [] p = "dl_gif"      -> "mp4"
      [] p = "mp4"         -> "dl_mp4"
      [] p = "dl_mp4"      -> "raw"
      [] p = "raw"         -> "advance"

\* the order of the statements of the try block (lines 131-208)
next_step(p) ==
    CASE p = "empty_check" -> "chart"
      [] p = "chart"       -> "trend"
      [] p = "trend"       -> "frames"
      [] p = "frames"      -> "clip"
      [] p = "clip"        -> "gif"
      [] p = "gif"         -> "mp4"
      [] p = "mp4"         -> "dl_png"
      [] p = "dl_png"      -> "dl_gif"
      [] p = "dl_gif"      -> "dl_mp4"
      [] p = "dl_mp4"      -> "raw"
      [] p = "raw"         -> "advance"

iso_list(sc) == {iso_map[c] : c \in sc \cap DOMAIN iso_map}

metric_name(s) == selected_metrics[s][idx[s]]

code_of(s) == metrics[metric_name(s)]

Upd(f, s, v) == [f EXCEPT ![s] = v]

Raise(s, e) ==
    /\ shown' = Upd(shown, s, handler(shown[s], metric_name(s), e))
    /\ pc' = Upd(pc, s, except_pc)

Show(s, el) == shown' = Upd(shown, s, shown[s] \cup {El(metric_name(s), el, "")})

(***************************************************************************)
(* The script, one action per step.                                         *)
(***************************************************************************)
InitCommon ==
    /\ nruns = 0
    /\ dir = StaleDir
    /\ pc = [s \in Sessions |-> "idle"]
    /\ runId = [s \in Sessions |-> 0]
    /\ selected_countries = [s \in Sessions |-> {}]
    /\ selected_metrics = [s \in Sessions |-> <<>>]
    /\ fps = [s \in Sessions |-> 2]
    /\ idx = [s \in Sessions |-> 0]
    /\ df = [s \in Sessions |-> <<>>]
    /\ years = [s \in Sessions |-> <<>>]
    /\ frame_paths = [s \in Sessions |-> <<>>]
    /\ clip = [s \in Sessions |-> [frames |-> <<>>, fps |-> 2]]
    /\ shown = [s \in Sessions |-> {}]
    /\ offered = [s \in Sessions |-> {}]

Init == InitCommon /\ nSessions = 1

InitConc == InitCommon /\ nSessions \in {1, 2}

\* A rerun of the script: the widgets are read (lines 90-95), the page is
\* empty, and the scratch directory is purged (lines 102-106).
StartRun(s) ==
    /\ s <= nSessions
    /\ pc[s] \in {"idle", "done"}
    /\ nruns < MaxRuns
    /\ \E sc \in Inputs.countrySel, sm \in Inputs.metricSel, f \in Inputs.fpsSel :
        /\ selected_countries' = Upd(selected_countries, s, sc)
        /\ selected_metrics' = Upd(selected_metrics, s, sm)
        /\ fps' = Upd(fps, s, f)
    /\ nruns' = nruns + 1
    /\ runId' = Upd(runId, s, nruns + 1)
    /\ idx' = Upd(idx, s, 0)
    /\ df' = Upd(df, s, <<>>)
    /\ years' = Upd(years, s, <<>>)
    /\ frame_paths' = Upd(frame_paths, s, <<>>)
    /\ clip' = Upd(clip, s, [frames |-> <<>>, fps |-> 2])
    /\ shown' = Upd(shown, s, {})
    /\ offered' = Upd(offered, s, {})
    /\ dir' = cleanup(dir)
    /\ pc' = Upd(pc, s, "main")
    /\ UNCHANGED nSessions

\* lines 109-114
Main(s) ==
    /\ pc[s] = "main"
    /\ IF selected_countries[s] = {} \/ selected_metrics[s] = <<>>
       THEN /\ shown' = Upd(shown, s, shown[s] \cup {El("", "warning", "select")})
            /\ pc' = Upd(pc, s, "done")
            /\ idx' = idx
       ELSE /\ idx' = Upd(idx, s, 1)
            /\ pc' = Upd(pc, s, "fetch")
            /\ shown' = shown
    /\ UNCHANGED <<nSessions, nruns, dir, runId, selected_countries, selected_metrics,
                   fps, df, years, frame_paths, clip, offered>>

\* lines 118-123
Fetch(s) ==
    /\ pc[s] = "fetch"
    /\ \E world \in Inputs.worlds, ok \in BOOLEAN :
        IF ok
        THEN /\ df' = Upd(df, s, dropna(get_dataframe(world,
                                   iso_list(selected_countries[s]),
                                   <<start_date, end_date>>)))
             /\ pc' = Upd(pc, s, "normalise")
             /\ shown' = shown
        ELSE /\ Raise(s, "fetch")
             /\ df' = df
    /\ UNCHANGED <<nSessions, nruns, dir, runId, selected_countries, selected_metrics,
                   fps, idx, years, frame_paths, clip, offered>>

\* lines 124-125
Normalise(s) ==
    /\ pc[s] = "normalise"
    /\ \E ok \in BOOLEAN :
        IF ok
        THEN /\ df' = Upd(df, s, normalise(df[s]))
             /\ pc' = Upd(pc, s, "empty_check")
             /\ shown' = shown
        ELSE /\ Raise(s, "normalise")
             /\ df' = df
    /\ UNCHANGED <<nSessions, nruns, dir, runId, selected_countries, selected_metrics,
                   fps, idx, years, frame_paths, clip, offered>>

\* lines 127-129
EmptyCheck(s) ==
    /\ pc[s] = "empty_check"
    /\ IF df[s] = <<>>
       THEN /\ Show(s, "warning")
            /\ pc' = Upd(pc, s, empty_pc)
       ELSE /\ pc' = Upd(pc, s, next_step("empty_check"))
            /\ shown' = shown
    /\ UNCHANGED <<nSessions, nruns, dir, runId, selected_countries, selected_metrics,
                   fps, idx, df, years, frame_paths, clip, offered>>

\* lines 131-154
Chart(s) ==
    /\ pc[s] = "chart"
    /\ \E ok \in BOOLEAN :
        IF ok
        THEN /\ Show(s, "chart")
             /\ pc' = Upd(pc, s, next_step("chart"))
        ELSE Raise(s, "chart")
    /\ UNCHANGED <<nSessions, nruns, dir, runId, selected_countries, selected_metrics,
                   fps, idx, df, years, frame_paths, clip, offered>>

\* lines 156-161
Trend(s) ==
    /\ pc[s] = "trend"
    /\ IF pivot_ok(df[s])
       THEN /\ Show(s, "trend")
            /\ years' = Upd(years, s, years_of(df[s]))
            /\ frame_paths' = Upd(frame_paths, s, <<>>)
            /\ pc' = Upd(pc, s, IF years_of(df[s]) = <<>> THEN next_step("frames")
                                ELSE next_step("trend"))
       ELSE /\ Raise(s, "pivot")
            /\ UNCHANGED <<years, frame_paths>>
    /\ UNCHANGED <<nSessions, nruns, dir, runId, selected_countries, selected_metrics,
                   fps, idx, df, clip, offered>>

\* lines 162-180, one iteration
Frame(s) ==
    /\ pc[s] = "frames"
    /\ LET k   == Len(frame_paths[s]) + 1
           yr  == years[s][k]
           out == frame_path(code_of(s), yr)
       IN \E ok \in BOOLEAN :
            IF ok
            THEN /\ dir' = write_file(dir, out, render_frame(runId[s], code_of(s), yr, df[s]))
                 /\ frame_paths' = Upd(frame_paths, s, Append(frame_paths[s], out))
                 /\ pc' = Upd(pc, s, IF k = Len(years[s]) THEN next_step("frames")
                                     ELSE "frames")
                 /\ shown' = shown
            ELSE /\ Raise(s, "write_image")
                 /\ UNCHANGED <<dir, frame_paths>>
    /\ UNCHANGED <<nSessions, nruns, runId, selected_countries, selected_metrics,
                   fps, idx, df, years, clip, offered>>

\* line 182
Clip(s) ==
    /\ pc[s] = "clip"
    /\ IF frame_paths[s] = <<>>
       THEN Raise(s, "IndexError") /\ clip' = clip
       ELSE IF \E i \in 1..Len(frame_paths[s]) : frame_paths[s][i] \notin DOMAIN dir
       THEN Raise(s, "FileNotFoundError") /\ clip' = clip
       ELSE \E ok \in BOOLEAN :
            IF ok
            THEN /\ clip' = Upd(clip, s, load_clip(dir, frame_paths[s], fps[s]))
                 /\ pc' = Upd(pc, s, next_step("clip"))
                 /\ shown' = shown
            ELSE Raise(s, "clip") /\ clip' = clip
    /\ UNCHANGED <<nSessions, nruns, dir, runId, selected_countries, selected_metrics,
                   fps, idx, df, years, frame_paths, offered>>

\* lines 183, 185
Gif(s) ==
    /\ pc[s] = "gif"
    /\ \E ok \in BOOLEAN :
        IF ok
        THEN /\ dir' = write_file(dir, gif_p(code_of(s)), write_gif(runId[s], clip[s], fps[s]))
             /\ pc' = Upd(pc, s, next_step("gif"))
             /\ shown' = shown
        ELSE Raise(s, "write_gif") /\ dir' = dir
    /\ UNCHANGED <<nSessions, nruns, runId, selected_countries, selected_metrics,
                   fps, idx, df, years, frame_paths, clip, offered>>

\* lines 184, 186-188
Mp4(s) ==
    /\ pc[s] = "mp4"
    /\ \E ok \in BOOLEAN :
        IF ok
        THEN /\ dir' = write_file(dir, mp4_p(code_of(s)),
                                  write_videofile(runId[s], clip[s], fps[s]))
             /\ pc' = Upd(pc, s, next_step("mp4"))
             /\ shown' = shown
        ELSE Raise(s, "write_videofile") /\ dir' = dir
    /\ UNCHANGED <<nSessions, nruns, runId, selected_countries, selected_metrics,
                   fps, idx, df, years, frame_paths, clip, offered>>

\* one st.download_button(label, data=open(path,"rb").read(), ...)
Download(s, path, label, file_name, mime, next) ==
    /\ IF path \in DOMAIN dir
       THEN /\ offered' = Upd(offered, s, offered[s] \cup
                     {Button(metric_name(s), label, file_name, mime, dir[path])})
            /\ pc' = Upd(pc, s, next)
            /\ shown' = shown
       ELSE Raise(s, "FileNotFoundError") /\ offered' = offered
    /\ UNCHANGED <<nSessions, nruns, dir, runId, selected_countries, selected_metrics,
                   fps, idx, df, years, frame_paths, clip>>

\* lines 191-195
PngButton(s) ==
    /\ pc[s] = "dl_png"
    /\ IF frame_paths[s] = <<>>
       THEN /\ Raise(s, "IndexError")
            /\ UNCHANGED <<nSessions, nruns, dir, runId, selected_countries,
                           selected_metrics, fps, idx, df, years, frame_paths, clip,
                           offered>>
       ELSE Download(s, frame_paths[s][Len(frame_paths[s])], "Download PNG",
                     frame_path(code_of(s), years[s][Len(years[s])]), "image/png",
                     next_step("dl_png"))

\* lines 196-200
GifButton(s) ==
    /\ pc[s] = "dl_gif"
    /\ Download(s, gif_p(code_of(s)), "Download GIF", gif_p(code_of(s)), "image/gif",
                next_step("dl_gif"))

\* lines 201-205
Mp4Button(s) ==
    /\ pc[s] = "dl_mp4"
    /\ Download(s, mp4_p(code_of(s)), "Download MP4", mp4_p(code_of(s)), "video/mp4",
                next_step("dl_mp4"))

\* lines 207-208
Raw(s) ==
    /\ pc[s] = "raw"
    /\ Show(s, "raw")
    /\ pc' = Upd(pc, s, next_step("raw"))
    /\ UNCHANGED <<nSessions, nruns, dir, runId, selected_countries, selected_metrics,
                   fps, idx, df, years, frame_paths, clip, offered>>

\* line 114: the for loop takes the next metric, or the script ends
Advance(s) ==
    /\ pc[s] = "advance"
    /\ idx' = Upd(idx, s, IF idx[s] < Len(selected_metrics[s]) THEN idx[s] + 1 ELSE idx[s])
    /\ pc' = Upd(pc, s, IF idx[s] < Len(selected_metrics[s]) THEN "fetch" ELSE "done")
    /\ df' = Upd(df, s, <<>>)
    /\ years' = Upd(years, s, <<>>)
    /\ frame_paths' = Upd(frame_paths, s, <<>>)
    /\ clip' = Upd(clip, s, [frames |-> <<>>, fps |-> 2])
    /\ UNCHANGED <<nSessions, nruns, dir, runId, selected_countries, selected_metrics,
                   fps, shown, offered>>

Next ==
    \E s \in Sessions :
        \/ StartRun(s)
        \/ Main(s)
        \/ Fetch(s)
        \/ Normalise(s)
        \/ EmptyCheck(s)
        \/ Chart(s)
        \/ Trend(s)
        \/ Frame(s)
        \/ Clip(s)
        \/ Gif(s)
        \/ Mp4(s)
        \/ PngButton(s)
        \/ GifButton(s)
        \/ Mp4Button(s)
        \/ Raw(s)
        \/ Advance(s)

Spec == Init /\ [][Next]_vars

SpecConc == InitConc /\ [][Next]_vars

(***************************************************************************)
(* Vocabulary of the properties.                                            *)
(***************************************************************************)
Live == 1..nSessions

Range(q) == {q[i] : i \in 1..Len(q)}

ShownFor(s, m) == {x.el : x \in {y \in shown[s] : y.metric = m}}

ErrorsFor(s, m) == {x.text : x \in {y \in shown[s] : y.metric = m /\ y.el = "error"}}

OfferedFor(s, m) == {b \in offered[s] : b.metric = m}

LabelsFor(s, m) == {b.label : b \in OfferedFor(s, m)}

AllLabels == {"Download PNG", "Download GIF", "Download MP4"}

Pos(s, m) == CHOOSE i \in 1..Len(selected_metrics[s]) : selected_metrics[s][i] = m

\* the loop iteration of metric m is over
Finished(s, m) ==
    \/ pc[s] = "done"
    \/ Pos(s, m) < idx[s]
    \/ Pos(s, m) = idx[s] /\ pc[s] = "advance"

\* the run has entered the loop over the metrics (line 111)
InLoop(s) == selected_countries[s] # {} /\ selected_metrics[s] # <<>>

Ascending(q) == \A i, j \in 1..Len(q) : i < j => q[i] < q[j]

FrameYears(q) == [i \in 1..Len(q) |-> q[i].year]

EncodingErrors == {"write_image", "clip", "write_gif", "write_videofile"}

\* the names of the files the script writes for a code
NamesOf(code) ==
    {[base |-> code, ext |-> ".gif"], [base |-> code, ext |-> ".mp4"]}
        \cup {[base |-> code \o "_" \o ToString(d[1]), ext |-> ".png"] : d \in RawDates}

MaxOf(S) == CHOOSE x \in S : \A y \in S : y <= x

(***************************************************************************)
(* C1: a failure of one metric's pipeline stops no other metric: a run that *)
(* entered the loop ends with every selected metric processed (each shows   *)
(* its chart, a warning or an error), and every metric whose iteration is   *)
(* over without an error or an empty-table warning shows its chart, its     *)
(* trend view and the three download buttons.                               *)
(***************************************************************************)
C1_Isolation ==
    \A s \in Live : InLoop(s) /\ pc[s] # "main" =>
        \A m \in Range(selected_metrics[s]) :
            /\ pc[s] = "done" => ShownFor(s, m) # {}
            /\ (Finished(s, m) /\ ~({"error", "warning"} \cap ShownFor(s, m) # {}))
                  => /\ {"chart", "trend"} \subseteq ShownFor(s, m)
                     /\ LabelsFor(s, m) = AllLabels

C1_Witness ==
    \E s \in Live :
        /\ pc[s] = "done"
        /\ Len(selected_metrics[s]) = 2
        /\ "write_gif" \in ErrorsFor(s, selected_metrics[s][1])
        /\ {"chart", "trend", "raw"} \subseteq ShownFor(s, selected_metrics[s][2])
        /\ LabelsFor(s, selected_metrics[s][2]) = AllLabels

(***************************************************************************)
(* C2: when the emptiness check (line 127) finds the table empty, that step *)
(* shows a warning for the metric, writes nothing and hands over to the     *)
(* loop; the metric then shows nothing but the warning, has no download and *)
(* no file of its code in the directory, and at the end of the run every    *)
(* other selected metric has been processed.                                *)
(***************************************************************************)
C2_EmptyState ==
    \A s \in Live : \A m \in Range(selected_metrics[s]) :
        "warning" \in ShownFor(s, m) =>
            /\ ShownFor(s, m) = {"warning"}
            /\ OfferedFor(s, m) = {}
            /\ NamesOf(metrics[m]) \cap DOMAIN dir = {}
            /\ pc[s] = "done" => \A m2 \in Range(selected_metrics[s]) : ShownFor(s, m2) # {}

C2_EmptyStep ==
    \A s \in Live :
        (pc[s] = "empty_check" /\ df[s] = <<>>) =>
            /\ shown'[s] = shown[s] \cup {El(selected_metrics[s][idx[s]], "warning", "")}
            /\ pc'[s] = "advance"
            /\ dir' = dir
            /\ offered' = offered

C2_Empty == [](C2_EmptyState) /\ [][C2_EmptyStep]_vars

C2_Witness ==
    \E s \in Live :
        /\ pc[s] = "done"
        /\ Len(selected_metrics[s]) = 2
        /\ ShownFor(s, selected_metrics[s][1]) = {"warning"}
        /\ "raw" \in ShownFor(s, selected_metrics[s][2])

(***************************************************************************)
(* C3: the frame list, the frames loaded into the clip and the frames of    *)
(* every GIF and MP4 are in strictly ascending year order, whatever the     *)
(* order of the rows of the table.                                          *)
(***************************************************************************)
C3_FrameOrder ==
    /\ \A s \in Live :
        /\ Ascending(years[s])
        /\ Len(frame_paths[s]) <= Len(years[s])
        /\ \A i \in 1..Len(frame_paths[s]) :
              /\ frame_paths[s][i] \in DOMAIN dir
              /\ dir[frame_paths[s][i]].year = years[s][i]
        /\ Ascending(FrameYears(clip[s].frames))
    /\ \A n \in DOMAIN dir :
        dir[n].kind \in {"gif", "mp4"} => Ascending(FrameYears(dir[n].frames))

C3_Witness ==
    \E s \in Live :
        /\ pc[s] = "dl_png"
        /\ Len(df[s]) = 2
        /\ df[s][1].Year > df[s][2].Year
        /\ Len(dir[gif_p(metrics[selected_metrics[s][idx[s]]])].frames) = 2
        /\ Len(dir[mp4_p(metrics[selected_metrics[s][idx[s]]])].frames) = 2

(***************************************************************************)
(* C4: with one run in flight, from the start of a run on every .png, .gif  *)
(* and .mp4 file of the scratch directory was written by that run, and so   *)
(* was the content of every download it offers.                             *)
(***************************************************************************)
C4_Purged ==
    \A s \in Live : pc[s] # "idle" =>
        /\ \A n \in DOMAIN dir :
              lower(n.ext) \in {".png", ".gif", ".mp4"} => dir[n].writer = runId[s]
        /\ \A b \in offered[s] : b.data.writer = runId[s]

C4_Witness ==
    \E s \in Live :
        /\ runId[s] = 2
        /\ pc[s] = "done"
        /\ selected_metrics[s] = <<"GDP per Capita (current US$)">>
        /\ LabelsFor(s, "GDP per Capita (current US$)") = AllLabels
        /\ [base |-> "notes", ext |-> ".txt"] \in DOMAIN dir
        /\ Cardinality(DOMAIN dir) = 4

(***************************************************************************)
(* C5: a metric whose frame write, clip construction, GIF encoding or MP4   *)
(* encoding failed shows an error under its name and has no download        *)
(* button; an iteration that ended without showing the raw table shows an   *)
(* error or the empty-table warning for its metric.                         *)
(***************************************************************************)
C5_NoPartialDownload ==
    \A s \in Live : InLoop(s) =>
        /\ \A m \in Range(selected_metrics[s]) :
              ErrorsFor(s, m) \cap EncodingErrors # {} => OfferedFor(s, m) = {}
        /\ (pc[s] = "advance" /\ "raw" \notin ShownFor(s, selected_metrics[s][idx[s]]))
              => {"error", "warning"} \cap ShownFor(s, selected_metrics[s][idx[s]]) # {}

C5_Witness ==
    \E s \in Live :
        /\ pc[s] = "advance"
        /\ "write_videofile" \in ErrorsFor(s, selected_metrics[s][idx[s]])
        /\ gif_p(metrics[selected_metrics[s][idx[s]]]) \in DOMAIN dir
        /\ Len(frame_paths[s]) = 2
        /\ OfferedFor(s, selected_metrics[s][idx[s]]) = {}

(***************************************************************************)
(* C6 as stated: a metric that shows an error shows nothing else.           *)
(***************************************************************************)
C6_ErrorReplacesSection ==
    \A s \in Live : \A m \in Range(selected_metrics[s]) :
        "error" \in ShownFor(s, m) =>
            /\ ShownFor(s, m) = {"error"}
            /\ OfferedFor(s, m) = {}

(***************************************************************************)
(* C6 amended: a metric that shows an error shows no raw-data table and no  *)
(* download; it shows exactly what was displayed before the failing step:   *)
(* nothing else when the fetch, the normalisation or the chart failed, the  *)
(* chart when the trend pivot failed, the chart and the trend view when the *)
(* frame write, the clip or an encoding failed.                             *)
(***************************************************************************)
C6_ErrorAppended ==
    \A s \in Live : \A m \in Range(selected_metrics[s]) :
        \A e \in ErrorsFor(s, m) :
            /\ ErrorsFor(s, m) = {e}
            /\ OfferedFor(s, m) = {}
            /\ ShownFor(s, m) =
                  {"error"} \cup
                  (CASE e \in {"fetch", "normalise", "chart"} -> {}
                     [] e = "pivot"                           -> {"chart"}
                     [] e \in EncodingErrors                  -> {"chart", "trend"})

C6_Witness ==
    \E s \in Live : \E m \in Range(selected_metrics[s]) :
        /\ "write_image" \in ErrorsFor(s, m)
        /\ ShownFor(s, m) = {"error", "chart", "trend"}

(***************************************************************************)
(* C7: a file a run is about to read is lost when it is missing from the    *)
(* directory or carries another run's content.  With one session no file is *)
(* ever lost, no read fails and everything a run loaded or offers was       *)
(* written by it; with two sessions a lost file is reachable.               *)
(***************************************************************************)
Pending(s) ==
    IF pc[s] \in {"frames", "clip"} THEN Range(frame_paths[s])
    ELSE IF pc[s] \in {"gif", "mp4"} THEN {}
    ELSE IF pc[s] = "dl_png"
         THEN {frame_paths[s][Len(frame_paths[s])], gif_p(code_of(s)), mp4_p(code_of(s))}
    ELSE IF pc[s] = "dl_gif" THEN {gif_p(code_of(s)), mp4_p(code_of(s))}
    ELSE IF pc[s] = "dl_mp4" THEN {mp4_p(code_of(s))}
    ELSE {}

Lost(s) == {n \in Pending(s) : n \notin DOMAIN dir \/ dir[n].writer # runId[s]}

C7_SingleRunNoRace ==
    nSessions = 1 =>
        \A s \in Live :
            /\ Lost(s) = {}
            /\ \A m \in Range(selected_metrics[s]) :
                  ErrorsFor(s, m) \cap {"FileNotFoundError", "IndexError"} = {}
            /\ \A i \in 1..Len(clip[s].frames) : clip[s].frames[i].writer = runId[s]
            /\ \A b \in offered[s] : b.data.writer = runId[s]

C7_Witness ==
    /\ nSessions = 2
    /\ \E s \in Live :
        /\ pc[s] = "clip"
        /\ \E n \in Lost(s) : n \in DOMAIN dir

(***************************************************************************)
(* C8: the frame rate of a run is an integer in 1..5, and every GIF and MP4 *)
(* of the run, on disk or offered for download, is encoded with it.         *)
(***************************************************************************)
C8_SameFps ==
    \A s \in Live : pc[s] # "idle" =>
        /\ fps[s] \in 1..5
        /\ \A n \in DOMAIN dir : dir[n].kind \in {"gif", "mp4"} => dir[n].fps = fps[s]
        /\ \A b \in offered[s] : b.data.kind \in {"gif", "mp4"} => b.data.fps = fps[s]

C8_Witness ==
    \E s \in Live :
        /\ pc[s] = "done"
        /\ fps[s] = 5
        /\ Len(selected_metrics[s]) = 2
        /\ \A m \in Range(selected_metrics[s]) : LabelsFor(s, m) = AllLabels

(***************************************************************************)
(* C9: once the three downloads of a metric are offered, the directory      *)
(* holds exactly one frame {code}_{year}.png per distinct year of the       *)
(* table, the GIF and the MP4 hold exactly those frames, one per year, and  *)
(* the PNG offered is the frame of the greatest year.                       *)
(***************************************************************************)
C9_OneFramePerYear ==
    \A s \in Live : pc[s] = "raw" =>
        LET m      == selected_metrics[s][idx[s]]
            code   == metrics[m]
            Y      == {df[s][i].Year : i \in 1..Len(df[s])}
            frames == {n \in DOMAIN dir : dir[n].kind = "png" /\ dir[n].code = code}
            name(y) == [base |-> code \o "_" \o ToString(y), ext |-> ".png"]
            gif    == dir[[base |-> code, ext |-> ".gif"]]
            mp4    == dir[[base |-> code, ext |-> ".mp4"]]
            png    == CHOOSE b \in OfferedFor(s, m) : b.label = "Download PNG"
        IN /\ Y # {}
           /\ frames = {name(y) : y \in Y}
           /\ Cardinality(frames) = Cardinality(Y)
           /\ \A y \in Y : dir[name(y)].year = y
           /\ Len(gif.frames) = Cardinality(Y)
           /\ {gif.frames[i] : i \in 1..Len(gif.frames)} = {dir[n] : n \in frames}
           /\ mp4.frames = gif.frames
           /\ png.data = dir[name(MaxOf(Y))]
           /\ png.file_name = name(MaxOf(Y))
           /\ png.mime = "image/png"

C9_Witness ==
    \E s \in Live :
        /\ pc[s] = "raw"
        /\ Len(df[s]) = 2
        /\ df[s][1].Year = 2022
        /\ df[s][2].Year = 2000

(***************************************************************************)
(* C10: every row of the table a run works on has a non-null value and a    *)
(* date, and once derived a Year, within 2000..2022.                        *)
(***************************************************************************)
C10_RowsInRange ==
    \A s \in Live : \A i \in 1..Len(df[s]) :
        /\ df[s][i].value # NaN
        /\ df[s][i].date[1] >= 2000
        /\ df[s][i].date[1] <= 2022
        /\ pc[s] \notin {"normalise", "advance"} =>
              /\ df[s][i].Year >= 2000
              /\ df[s][i].Year <= 2022

C10_Witness ==
    \E s \in Live :
        /\ pc[s] = "chart"
        /\ Len(df[s]) = 2
        /\ df[s][1].Year = 2000
        /\ df[s][2].Year = 2022
        /\ df[s][1].Country # df[s][2].Country

====
